---- MODULE Spec2Model ----
(***************************************************************************)
(* FileSorter (src/main.rs): one sort pass over a directory, the daemon    *)
(* loop around it, rule loading and rule application.                      *)
(*                                                                         *)
(* A file name is the sequence of its "."-separated segments:              *)
(*   "a.txt" = <<"a","txt">>, "Images" = <<"Images">>.                     *)
(* A segment of NonUtf8 stands for bytes that are not valid Unicode.       *)
(* The sorted directory holds top-level entries (top) and, one level down, *)
(* the contents of the destination folders (sub).  An entry is "none"      *)
(* (absent), "dir", or a regular file, named by its content ("orig" for a  *)
(* file that started at top level, "other" for one found in a folder).     *)
(* rules.json and sort_rules.lua are read from the working directory,      *)
(* which is taken to be a directory other than the sorted one.             *)
(* Destinations are single path components.  Nothing but the pass itself   *)
(* touches the directory's entries; the directory as a whole may be        *)
(* removed, made unreadable or put back while the daemon sleeps.           *)
(***************************************************************************)
EXTENDS Integers, Sequences, FiniteSets, TLC

\* ---- bounds of the model ------------------------------------------------
MaxFiles == 3

\* ---- names ----------------------------------------------------------------
NonUtf8 == {"%FF"}

aTxt == <<"a", "txt">>
bJpg == <<"b", "jpg">>
cUnknown == <<"c", "unknownext">>
eBad == <<"e", "%FF">>
oldTxt == <<"old", "txt">>
imagesName == <<"Images">>

\* names a top-level entry of the initial directory may have
EntryNames == {aTxt, bJpg, cUnknown, eBad, oldTxt, imagesName}

\* entries that start as subdirectories; the others start as regular files
InitialDirs == {oldTxt}

\* destination folder names that occur in rules or script results
Dests == {"TextFiles", "Images", "RustCode", "Docs", "Misc"}

DestSeq == <<"TextFiles", "Images", "RustCode", "Docs", "Misc">>

\* Path::new(directory).join(destination): the entry the folder is
DestEntry(d) == <<d>>

AllNames == EntryNames \cup {DestEntry(d) : d \in Dests}

Files == {"orig", "other"}

\* ---- options ----------------------------------------------------------------
NoneOpt == {}

Some(v) == {v}

Unwrap(o) == CHOOSE v \in o : TRUE

\* ---- rules ------------------------------------------------------------------
define_default_rules ==
    (".txt" :> "TextFiles") @@ (".jpg" :> "Images") @@
    (".png" :> "Images") @@ (".rs" :> "RustCode")

NoRules == [k \in {} |-> ""]

CustomRules == (".txt" :> "Docs")

\* the states of rules.json
RuleArtifacts ==
    { [state |-> "missing", rules |-> NoRules],
      [state |-> "unreadable", rules |-> NoRules],
      [state |-> "malformed", rules |-> NoRules],
      [state |-> "ok", rules |-> CustomRules] }

\* a malformed rules.json read as an empty map
load_rules_EmptyOnMalformed(art) ==
    IF art.state = "malformed" THEN Some(NoRules)
    ELSE IF art.state = "ok" THEN Some(art.rules)
    ELSE NoneOpt

load_rules(art) ==
    IF art.state # "missing"
    THEN IF art.state = "unreadable" THEN NoneOpt
         ELSE IF art.state = "malformed" THEN NoneOpt
         ELSE Some(art.rules)
    ELSE NoneOpt

LoadedRules(art) ==
    IF load_rules(art) = NoneOpt THEN define_default_rules
    ELSE Unwrap(load_rules(art))

\* ---- script -----------------------------------------------------------------
\* the states of sort_rules.lua; a script that loads either returns nil,
\* raises an error, or returns a folder name
ScriptArtifacts ==
    { [state |-> "missing", returns |-> "nil"],
      [state |-> "unreadable", returns |-> "nil"],
      [state |-> "malformed", returns |-> "nil"],
      [state |-> "ok", returns |-> "nil"],
      [state |-> "ok", returns |-> "error"],
      [state |-> "ok", returns |-> "Misc"] }

\* ---- rule application -------------------------------------------------------
\* Path::extension: none without an embedded ".", none for ".name"
Extension(name) ==
    IF Len(name) = 1 THEN NoneOpt
    ELSE IF Len(name) = 2 /\ name[1] = "" THEN NoneOpt
    ELSE Some(name[Len(name)])

\* OsStr::to_str
ToStr(s) == IF s \in NonUtf8 THEN NoneOpt ELSE Some(s)

\* Path::to_str of the whole path
PathToStr(name) ==
    IF \E i \in 1..Len(name) : name[i] \in NonUtf8 THEN NoneOpt ELSE Some(name)

\* format!(".{}", extension_str), where the file has a Unicode extension
Key(name) ==
    IF Extension(name) = NoneOpt THEN NoneOpt
    ELSE IF ToStr(Unwrap(Extension(name))) = NoneOpt THEN NoneOpt
    ELSE Some("." \o Unwrap(Extension(name)))

ResSome(d) == [kind |-> "Some", dest |-> d]

ResNone == [kind |-> "None", dest |-> ""]

ResPanic == [kind |-> "Panic", dest |-> ""]

\* lines 176-188: the script fallback
ScriptFallback(name, script) ==
    IF script.state = "missing" THEN ResNone
    ELSE IF script.state = "unreadable" THEN ResNone
    ELSE IF script.state = "malformed" THEN ResNone
    ELSE IF PathToStr(name) = NoneOpt THEN ResPanic
    ELSE IF script.returns = "error" THEN ResNone
    ELSE IF script.returns = "nil" THEN ResNone
    ELSE ResSome(script.returns)

\* the script asked first, the rule map second
apply_rules_ScriptFirst(name, rs, script) ==
    IF ScriptFallback(name, script).kind = "Some" THEN ScriptFallback(name, script)
    ELSE IF Key(name) # NoneOpt /\ Unwrap(Key(name)) \in DOMAIN rs
    THEN ResSome(rs[Unwrap(Key(name))])
    ELSE ScriptFallback(name, script)

\* the lookup key built without the leading "."
apply_rules_NoDot(name, rs, script) ==
    IF Key(name) # NoneOpt /\ Unwrap(Extension(name)) \in DOMAIN rs
    THEN ResSome(rs[Unwrap(Extension(name))])
    ELSE ScriptFallback(name, script)

apply_rules(name, rs, script) ==
    IF Key(name) # NoneOpt /\ Unwrap(Key(name)) \in DOMAIN rs
    THEN ResSome(rs[Unwrap(Key(name))])
    ELSE ScriptFallback(name, script)

\* ---- state ------------------------------------------------------------------
VARIABLES
    mode,        \* "sort" or "daemon": the subcommand
    dirState,    \* the sorted directory: "dir", "missing" or "unreadable"
    rulesArt,    \* rules.json
    scriptArt,   \* sort_rules.lua
    top,         \* top-level entries of the directory
    sub,         \* contents of the destination folders
    order,       \* the order in which read_dir lists the entries
    pc,          \* "start", "iter", "sleep", "exit", "panic"
    listing,     \* entries the pass has not visited
    rules,       \* the rule map of the running pass
    result,      \* what the last sort_files call returned
    classified,  \* the last entry given to apply_rules and what it returned
    passMoves,   \* renames done by the current pass
    startTop     \* the top-level entries when the current pass began

vars ==
    <<mode, dirState, rulesArt, scriptArt, top, sub, order, pc, listing,
      rules, result, classified, passMoves, startTop>>

\* ---- file system ------------------------------------------------------------
Perms(S) ==
    {s \in [1..Cardinality(S) -> S] : \A i, j \in 1..Cardinality(S) : s[i] = s[j] => i = j}

EmptyFolder == [n \in EntryNames |-> "none"]

\* what the TextFiles folder holds at the start: nothing (the folder is
\* absent), a file a.txt, or a directory a.txt
PreExisting == {"none", "other", "dir"}

InitTop(chosen, pre) ==
    [n \in AllNames |->
        IF n \in chosen THEN (IF n \in InitialDirs THEN "dir" ELSE "orig")
        ELSE IF n = DestEntry("TextFiles") /\ pre # "none" THEN "dir"
        ELSE "none"]

InitSub(pre) ==
    [d \in Dests |->
        IF d = "TextFiles" THEN [EmptyFolder EXCEPT ![aTxt] = pre]
        ELSE EmptyFolder]

\* fs::read_dir: the entries present, in the directory's listing order
FullOrder(ord) ==
    ord \o SelectSeq([i \in 1..Len(DestSeq) |-> DestEntry(DestSeq[i])],
                     LAMBDA n : \A i \in 1..Len(ord) : ord[i] # n)

ReadDir(t, ord) == SelectSeq(FullOrder(ord), LAMBDA n : t[n] # "none")

\* the is_file test left out: every entry is taken for a file
IsFile_AnyEntry(t, n) == t[n] # "none"

\* entry.file_type()?.is_file()
IsFile(t, n) == t[n] \in Files

\* fs::create_dir_all(directory/dest): fails when the name is taken by a file
CreateDirOk(t, d) == t[DestEntry(d)] \in {"none", "dir"}

CreateDirAll(t, d) == [t EXCEPT ![DestEntry(d)] = "dir"]

\* fs::rename(file, directory/dest/name): replaces a file of that name, fails
\* when that name is a directory
RenameOk(s, d, n) == s[d][n] # "dir"

\* ---- the pass ---------------------------------------------------------------
AfterPass == IF mode = "daemon" THEN "sleep" ELSE "exit"

NoClass == [name |-> <<>>, res |-> ResNone]

Init ==
    /\ mode \in {"sort", "daemon"}
    /\ dirState \in {"dir", "missing"}
    /\ rulesArt \in RuleArtifacts
    /\ scriptArt \in ScriptArtifacts
    /\ \E chosen \in SUBSET EntryNames, pre \in PreExisting :
          /\ Cardinality(chosen) <= MaxFiles
          /\ order \in Perms(chosen)
          /\ top = InitTop(chosen, pre)
          /\ sub = InitSub(pre)
          /\ startTop = InitTop(chosen, pre)
    /\ pc = "start"
    /\ listing = <<>>
    /\ rules = NoRules
    /\ result = "none"
    /\ classified = NoClass
    /\ passMoves = 0

\* sort_files, lines 67-76: the directory check, the rules, read_dir
SortStart ==
    /\ pc = "start"
    /\ passMoves' = 0
    /\ classified' = NoClass
    /\ startTop' = top
    /\ IF dirState = "missing"
       THEN /\ result' = "NotADirectory"
            /\ pc' = AfterPass
            /\ UNCHANGED <<rules, listing>>
       ELSE /\ rules' = LoadedRules(rulesArt)
            /\ IF dirState = "unreadable"
               THEN /\ result' = "ReadDirError"
                    /\ pc' = AfterPass
                    /\ UNCHANGED listing
               ELSE /\ result' = "running"
                    /\ pc' = "iter"
                    /\ listing' = ReadDir(top, order)
    /\ UNCHANGED <<mode, dirState, rulesArt, scriptArt, top, sub, order>>

\* sort_files, lines 76-88: one iteration of the loop over the entries
SortEntry ==
    /\ pc = "iter"
    /\ listing # <<>>
    /\ LET n == Head(listing)
           r == apply_rules(n, rules, scriptArt)
       IN IF ~IsFile(top, n)
          THEN /\ listing' = Tail(listing)
               /\ UNCHANGED <<top, sub, pc, result, classified, passMoves>>
          ELSE /\ classified' = [name |-> n, res |-> r]
               /\ IF r.kind = "Panic"
                  THEN /\ pc' = "panic"
                       /\ UNCHANGED <<top, sub, listing, result, passMoves>>
                  ELSE IF r.kind = "None"
                  THEN /\ listing' = Tail(listing)
                       /\ UNCHANGED <<top, sub, pc, result, passMoves>>
                  ELSE IF ~CreateDirOk(top, r.dest)
                  THEN /\ result' = "CreateDirError"
                       /\ pc' = AfterPass
                       /\ listing' = Tail(listing)
                       /\ UNCHANGED <<top, sub, passMoves>>
                  ELSE IF ~RenameOk(sub, r.dest, n)
                  THEN /\ top' = CreateDirAll(top, r.dest)
                       /\ result' = "RenameError"
                       /\ pc' = AfterPass
                       /\ listing' = Tail(listing)
                       /\ UNCHANGED <<sub, passMoves>>
                  ELSE /\ top' = [CreateDirAll(top, r.dest) EXCEPT ![n] = "none"]
                       /\ sub' = [sub EXCEPT ![r.dest][n] = top[n]]
                       /\ passMoves' = passMoves + 1
                       /\ listing' = Tail(listing)
                       /\ UNCHANGED <<pc, result>>
    /\ UNCHANGED <<mode, dirState, rulesArt, scriptArt, order, rules, startTop>>

\* sort_files, line 90: the loop is over
SortDone ==
    /\ pc = "iter"
    /\ listing = <<>>
    /\ result' = "Ok"
    /\ pc' = AfterPass
    /\ UNCHANGED <<mode, dirState, rulesArt, scriptArt, top, sub, order,
                   listing, rules, classified, passMoves, startTop>>

\* run_daemon, line 98: the sleep ends and the loop goes round
Wake ==
    /\ pc = "sleep"
    /\ pc' = "start"
    /\ UNCHANGED <<mode, dirState, rulesArt, scriptArt, top, sub, order,
                   listing, rules, result, classified, passMoves, startTop>>

\* the environment: between two passes the directory is removed, made
\* unreadable, or put back
DirChange ==
    /\ pc = "sleep"
    /\ dirState' \in {"dir", "missing", "unreadable"} \ {dirState}
    /\ UNCHANGED <<mode, rulesArt, scriptArt, top, sub, order, pc, listing,
                   rules, result, classified, passMoves, startTop>>

Next == SortStart \/ SortEntry \/ SortDone \/ Wake \/ DirChange

Spec == Init /\ [][Next]_vars

\* the daemon without the environment's changes to the directory; the single
\* thread of control always takes its next step, and a sleep always ends
NextProgram == SortStart \/ SortEntry \/ SortDone \/ Wake

FairSpec == Init /\ [][NextProgram]_vars /\ WF_vars(NextProgram)

\* ---- properties ---------------------------------------------------------------
PassOver == pc \in {"sleep", "exit"}

\* the pass ran over an existing, readable directory
PassRan == PassOver /\ result \notin {"none", "NotADirectory", "ReadDirError"}

\* the map the spec gives for the built-in defaults
ExpectedDefaults ==
    [k \in {".txt", ".jpg", ".png", ".rs"} |->
        CASE k = ".txt" -> "TextFiles"
          [] k = ".jpg" -> "Images"
          [] k = ".png" -> "Images"
          [] k = ".rs" -> "RustCode"]

HasStaticRule(n, rs) == Key(n) # NoneOpt /\ Unwrap(Key(n)) \in DOMAIN rs

\* C1: in a pass over an existing directory a failed move (folder creation or
\* rename) does not stop the pass: every entry is still visited and sort
\* returns success.
C1_MoveFailureDoesNotStopPass ==
    PassRan => result = "Ok" /\ listing = <<>>

\* C2: a file whose key "." + extension is in the rule map is classified to
\* exactly the mapped destination, whatever the script artifact is.
C2_StaticPrecedence ==
    (classified.name # <<>> /\ HasStaticRule(classified.name, rules))
        => classified.res = ResSome(rules[Unwrap(Key(classified.name))])

C2_Witness ==
    /\ classified.name = aTxt
    /\ scriptArt = [state |-> "ok", returns |-> "Misc"]
    /\ rulesArt.state = "missing"
    /\ classified.res.dest = "TextFiles"
    /\ sub["TextFiles"][aTxt] = "orig"

\* the script artifact is absent, fails to load, or returns nothing
ScriptGivesNothing ==
    scriptArt.state \in {"missing", "unreadable", "malformed"}
        \/ (scriptArt.state = "ok" /\ scriptArt.returns = "nil")

\* C3: a regular top-level file with no static rule entry, when the script is
\* absent, fails to load or returns nothing, is classified to no destination,
\* stays at its path, and the pass does not fail because of it.
C3_NoMatchNoMoveNoError ==
    (classified.name # <<>> /\ ~HasStaticRule(classified.name, rules)
        /\ ScriptGivesNothing)
        => /\ classified.res = ResNone
           /\ top[classified.name] = startTop[classified.name]
           /\ pc # "panic"

DefaultsNoScript == rulesArt.state # "ok" /\ scriptArt.state = "missing"

\* every file that was at top level when the pass began is in its folder if
\* its extension has a default rule, and where it was otherwise
SortedByDefaults ==
    \A n \in AllNames :
        startTop[n] \in Files =>
            IF HasStaticRule(n, ExpectedDefaults)
            THEN LET d == ExpectedDefaults[Unwrap(Key(n))]
                 IN /\ top[n] = "none"
                    /\ top[DestEntry(d)] = "dir"
                    /\ sub[d][n] = startTop[n]
            ELSE top[n] = startTop[n]

NothingToSort ==
    \A n \in AllNames :
        top[n] \in Files => apply_rules(n, LoadedRules(rulesArt), scriptArt).kind # "Some"

\* C5: on a directory with no matching file left at top level, a pass does no
\* move and leaves the whole tree as it is, however many passes follow.
C5_Idempotent ==
    [][NothingToSort => top' = top /\ sub' = sub /\ passMoves' <= passMoves]_vars

C5_Witness ==
    /\ pc = "sleep" /\ result = "Ok" /\ passMoves = 0
    /\ NothingToSort
    /\ \E d \in Dests, n \in EntryNames : sub[d][n] = "orig"

\* C6: a top-level subdirectory is never classified, moved or renamed, and
\* nothing inside a subdirectory is ever moved out of it.
C6_OnlyTopLevelFiles ==
    [][/\ \A n \in AllNames : top[n] = "dir" => top'[n] = "dir"
       /\ \A d \in Dests, n \in EntryNames :
             /\ sub[d][n] \in Files => sub'[d][n] \in Files
             /\ sub[d][n] = "dir" => sub'[d][n] = "dir"
       /\ classified' # classified /\ classified' # NoClass
             => top[classified'.name] \in Files]_vars

C6_Witness ==
    /\ pc = "sleep" /\ result = "Ok" /\ passMoves = 0
    /\ top[oldTxt] = "dir"
    /\ sub["TextFiles"][aTxt] = "orig"

\* C7: the daemon never stops on its own: it is always in a pass, about to
\* start one, or asleep before the next one.
C7_DaemonNeverStops ==
    mode = "daemon" => pc \in {"start", "iter", "sleep"}

\* C8: a pass uses exactly the built-in defaults when rules.json is missing,
\* unreadable or malformed, and exactly the map of a well-formed rules.json.
C8_RulesLoaded ==
    pc = "iter" =>
        IF rulesArt.state = "ok" THEN rules = rulesArt.rules
        ELSE rules = ExpectedDefaults

C8_Witness ==
    /\ pc = "iter"
    /\ rulesArt.state = "malformed"
    /\ rules[".jpg"] = "Images" /\ rules[".png"] = "Images"
    /\ passMoves = 1

\* C9: a move onto a name that the destination folder already holds fails and
\* replaces nothing: a file in a destination folder stays the file it was.
C9_CollisionIsAnError ==
    [][\A d \in Dests, n \in EntryNames :
          sub[d][n] \in Files => sub'[d][n] = sub[d][n]]_vars

\* the move of top-level file n can succeed
Movable(n) ==
    /\ top[n] \in Files
    /\ LET r == apply_rules(n, LoadedRules(rulesArt), scriptArt)
       IN /\ r.kind = "Some"
          /\ CreateDirOk(top, r.dest)
          /\ RenameOk(sub, r.dest, n)

\* C10: under the daemon, with the listing order fixed, every regular
\* top-level file that has a destination and whose own move can succeed is
\* eventually moved, whatever moves of other files keep failing (the daemon
\* being still alive).
C10_NoStarvation ==
    \A n \in EntryNames :
        (mode = "daemon" /\ dirState = "dir" /\ Movable(n))
            ~> (top[n] = "none" \/ pc = "panic")

====
